---- MODULE Spec2Model ----
(***************************************************************************)
(* The streaming-event consumer and conversation store of the chat         *)
(* front end (frontend/src/App.jsx): the React state of App, the async     *)
(* handler handleSend cut at its awaits, toggleThinking, and the backend   *)
(* and network that feed the response body.                                *)
(*                                                                         *)
(* Text is a sequence of characters.  A character is a record [k, d]:      *)
(* the newline, a space, a non-JSON character, or one of the two halves    *)
(* of the text of a JSON object (d names the object).  JSON.parse accepts  *)
(* a line only when both halves of one object are present, in order.       *)
(***************************************************************************)
EXTENDS Integers, Sequences, FiniteSets, TLC

\* ------------------------------------------------------------------ bounds
\* handleSend invocations that start a turn, over a whole run
MaxCalls == 2
\* lines the backend writes, over a whole run
MaxLines == 3

Calls == 1..MaxCalls

\* ------------------------------------------------------------- characters
NL == [k |-> "nl", d |-> ""]
SP == [k |-> "sp", d |-> ""]
XX == [k |-> "x", d |-> ""]
H1(id) == [k |-> "h1", d |-> id]
H2(id) == [k |-> "h2", d |-> id]

\* The JSON objects the backend can put on a line (wire format of the
\* react-stream endpoint as read by handleSend), by name.
\* "T0" and "F0" are a thought and a final_answer without content, "U" has
\* an unknown type and "N" no type.
JsonIds == {"T", "S1", "S2", "F", "E", "U", "N", "T0", "F0"}

JsonData(id) ==
  CASE id = "T"  -> [type |-> "thought", content |-> "need weather"]
    [] id = "S1" -> [type |-> "step", step |-> 1, thought |-> "t1",
                     action |-> "a1", observation |-> "o1"]
    [] id = "S2" -> [type |-> "step", step |-> 2, thought |-> "t2",
                     action |-> "a2", observation |-> "o2"]
    [] id = "F"  -> [type |-> "final_answer", content |-> "answer"]
    [] id = "E"  -> [type |-> "error", content |-> "boom"]
    [] id = "U"  -> [type |-> "ping"]
    [] id = "N"  -> [content |-> "untyped"]
    [] id = "T0" -> [type |-> "thought"]
    [] id = "F0" -> [type |-> "final_answer"]

\* What the backend writes: the text of one JSON object and a newline, or a
\* line that is not JSON ("G").
LineKinds == JsonIds \cup {"G"}

LineText(kind) ==
  IF kind = "G" THEN <<XX, NL>> ELSE <<H1(kind), H2(kind), NL>>

\* a property read in JavaScript: undefined when the object lacks it
Undefined == "undefined"
Get(obj, f) == IF f \in DOMAIN obj THEN obj[f] ELSE Undefined

\* ------------------------------------------------------- string functions
\* String.prototype.trim
RECURSIVE TrimLeft(_)
TrimLeft(s) ==
  IF s # <<>> /\ Head(s).k \in {"sp", "nl"} THEN TrimLeft(Tail(s)) ELSE s

RECURSIVE TrimRight(_)
TrimRight(s) ==
  IF s # <<>> /\ s[Len(s)].k \in {"sp", "nl"}
    THEN TrimRight(SubSeq(s, 1, Len(s) - 1)) ELSE s

trim(s) == TrimRight(TrimLeft(s))

\* String.prototype.split('\n'): the pieces between newlines, the empty
\* ones included ("a\n" gives ["a", ""]).
RECURSIVE SplitFrom(_, _)
SplitFrom(s, cur) ==
  IF s = <<>> THEN <<cur>>
  ELSE IF Head(s).k = "nl" THEN <<cur>> \o SplitFrom(Tail(s), <<>>)
  ELSE SplitFrom(Tail(s), Append(cur, Head(s)))

split(s) == SplitFrom(s, <<>>)

\* Array.prototype.filter(line => line.trim()): the empty string is falsy
RECURSIVE filterNonBlank(_)
filterNonBlank(ls) ==
  IF ls = <<>> THEN <<>>
  ELSE IF trim(Head(ls)) # <<>> THEN <<Head(ls)>> \o filterNonBlank(Tail(ls))
  ELSE filterNonBlank(Tail(ls))

\* JSON.parse(line): white space around the value is allowed; anything but
\* the whole text of one object is a SyntaxError.
JSONParse(line) ==
  LET t == trim(line) IN
  IF Len(t) = 2 /\ t[1].k = "h1" /\ t[2].k = "h2" /\ t[1].d = t[2].d
    THEN [ok |-> TRUE, data |-> JsonData(t[1].d)]
    ELSE [ok |-> FALSE, data |-> [type |-> "SyntaxError"]]

\* ---------------------------------------------------- handling one line
\* The trace entry pushed for a thought event (lines 114-118)
ThoughtEntry(data) ==
  [step |-> 0, type |-> "thought", content |-> Get(data, "content")]

\* StepEntry that numbers the steps from 0
StepEntryFromZero(data) ==
  [step |-> Get(data, "step") - 1, type |-> "action",
   thought |-> Get(data, "thought"), action |-> Get(data, "action"),
   observation |-> Get(data, "observation")]

\* The trace entry pushed for a step event (lines 122-128)
StepEntry(data) ==
  [step |-> Get(data, "step"), type |-> "action",
   thought |-> Get(data, "thought"), action |-> Get(data, "action"),
   observation |-> Get(data, "observation")]

\* CommitTurn that puts the new turn first
CommitTurnFirst(prev, userMessage, currentSteps, c) ==
  <<[userMessage |-> userMessage,
     thinkingSteps |-> currentSteps,
     assistantMessage |-> c,
     showThinking |-> TRUE]>> \o prev

\* CommitTurn on the history as it was when its turns were committed, all
\* of them shown
CommitTurnOnStale(prev, userMessage, currentSteps, c) ==
  Append([i \in 1..Len(prev) |-> [prev[i] EXCEPT !.showThinking = TRUE]],
         [userMessage |-> userMessage,
          thinkingSteps |-> currentSteps,
          assistantMessage |-> c,
          showThinking |-> TRUE])

\* The updater given to setConversations on a terminal event: a new turn at
\* the end.  thinkingSteps is a copy of currentSteps; assistantMessage is
\* the object of invocation c itself (a reference), not a copy.
CommitTurn(prev, userMessage, currentSteps, c) ==
  Append(prev, [userMessage |-> userMessage,
                thinkingSteps |-> currentSteps,
                assistantMessage |-> c,
                showThinking |-> TRUE])

\* The template literal of line 150: a fixed prefix ("error: " in Chinese)
\* followed by data.content.  A string is the sequence of its pieces.
ErrorPrefix == "error-prefix: "
ErrorContent(data) == <<ErrorPrefix, Get(data, "content")>>

\* setConversations(prev => [...prev, {...}]) of lines 136 and 152.  The
\* turn is built when React runs the updater, from what currentSteps holds
\* by then.  React runs it inside the call when it does not batch updates,
\* and also when it batches them and no update of the component is pending
\* (the eager computation of dispatchSetState); otherwise at the render that
\* follows the loop over the lines of the chunk.  st.pending: a state update
\* was made earlier in the loop; st.queued counts the updaters that wait.
\* st.handled records the terminal events handled: the type and content of
\* the event and currentSteps at that instant.
SetConversations(st, data, userMessage, c) ==
  LET event == [type |-> Get(data, "type"),
                content |-> Get(data, "content"),
                steps |-> st.currentSteps]
  IN
  IF st.batched /\ st.pending
    THEN [st EXCEPT !.queued = @ + 1,
                    !.handled = Append(@, event)]
    ELSE [st EXCEPT !.conversations =
                       CommitTurn(@, userMessage, st.currentSteps, c),
                    !.pending = TRUE,
                    !.handled = Append(@, event)]

\* ProcessLine with unshift for push: a new entry goes in front
ProcessLineUnshift(st, line, userMessage, c) ==
  LET p == JSONParse(line)
      data == p.data
      type == Get(data, "type")
  IN
  IF ~p.ok THEN [st EXCEPT !.parseErrors = @ + 1]
  ELSE IF type = "thought" THEN
    LET steps == <<ThoughtEntry(data)>> \o st.currentSteps IN
    [st EXCEPT !.currentSteps = steps, !.currentThinkingSteps = steps,
               !.pending = TRUE]
  ELSE IF type = "step" THEN
    LET steps == <<StepEntry(data)>> \o st.currentSteps IN
    [st EXCEPT !.currentSteps = steps, !.currentThinkingSteps = steps,
               !.pending = TRUE]
  ELSE IF type = "final_answer" THEN
    [SetConversations(st, data, userMessage, c) EXCEPT
       !.content = <<Get(data, "content")>>,
       !.hasFinalAnswer = TRUE,
       !.currentThinkingSteps = <<>>]
  ELSE IF type = "error" THEN
    [SetConversations(st, data, userMessage, c) EXCEPT
       !.content = ErrorContent(data),
       !.currentThinkingSteps = <<>>]
  ELSE st

\* ProcessLine with a last else that takes any other type for an error
ProcessLineElseError(st, line, userMessage, c) ==
  LET p == JSONParse(line)
      data == p.data
      type == Get(data, "type")
  IN
  IF ~p.ok THEN [st EXCEPT !.parseErrors = @ + 1]
  ELSE IF type = "thought" THEN
    LET steps == Append(st.currentSteps, ThoughtEntry(data)) IN
    [st EXCEPT !.currentSteps = steps, !.currentThinkingSteps = steps,
               !.pending = TRUE]
  ELSE IF type = "step" THEN
    LET steps == Append(st.currentSteps, StepEntry(data)) IN
    [st EXCEPT !.currentSteps = steps, !.currentThinkingSteps = steps,
               !.pending = TRUE]
  ELSE IF type = "final_answer" THEN
    [SetConversations(st, data, userMessage, c) EXCEPT
       !.content = <<Get(data, "content")>>,
       !.hasFinalAnswer = TRUE,
       !.currentThinkingSteps = <<>>]
  ELSE
    [SetConversations(st, data, userMessage, c) EXCEPT
       !.content = ErrorContent(data),
       !.currentThinkingSteps = <<>>]

\* The body of `for (const line of lines)`, on the locals of the invocation
\* and the React state it sets:
\*   st.currentSteps, st.hasFinalAnswer, st.content (assistantMessage.content),
\*   st.conversations, st.currentThinkingSteps, and st.parseErrors, the
\*   number of console.error reports of the inner catch; st.batched,
\*   st.pending and st.queued are React's side of the updates.
ProcessLine(st, line, userMessage, c) ==
  LET p == JSONParse(line)
      data == p.data
      type == Get(data, "type")
  IN
  IF ~p.ok THEN [st EXCEPT !.parseErrors = @ + 1]
  ELSE IF type = "thought" THEN
    LET steps == Append(st.currentSteps, ThoughtEntry(data)) IN
    [st EXCEPT !.currentSteps = steps, !.currentThinkingSteps = steps,
               !.pending = TRUE]
  ELSE IF type = "step" THEN
    LET steps == Append(st.currentSteps, StepEntry(data)) IN
    [st EXCEPT !.currentSteps = steps, !.currentThinkingSteps = steps,
               !.pending = TRUE]
  ELSE IF type = "final_answer" THEN
    [SetConversations(st, data, userMessage, c) EXCEPT
       !.content = <<Get(data, "content")>>,
       !.hasFinalAnswer = TRUE,
       !.currentThinkingSteps = <<>>]
  ELSE IF type = "error" THEN
    [SetConversations(st, data, userMessage, c) EXCEPT
       !.content = ErrorContent(data),
       !.currentThinkingSteps = <<>>]
  ELSE st

\* ProcessLines with the try around the loop: the first line that does not
\* parse ends the loop
RECURSIVE ProcessLinesAbort(_, _, _, _)
ProcessLinesAbort(st, lines, userMessage, c) ==
  IF lines = <<>> THEN st
  ELSE IF ~JSONParse(Head(lines)).ok
    THEN [st EXCEPT !.parseErrors = @ + 1]
  ELSE ProcessLinesAbort(ProcessLine(st, Head(lines), userMessage, c),
                         Tail(lines), userMessage, c)

RECURSIVE ProcessLines(_, _, _, _)
ProcessLines(st, lines, userMessage, c) ==
  IF lines = <<>> THEN st
  ELSE ProcessLines(ProcessLine(st, Head(lines), userMessage, c),
                    Tail(lines), userMessage, c)

\* The render after the loop: React runs the updaters that waited, in the
\* order of the calls, each on the result of the one before.
RECURSIVE RunUpdaters(_, _, _)
RunUpdaters(st, userMessage, c) ==
  IF st.queued = 0 THEN st
  ELSE RunUpdaters(
         [st EXCEPT !.queued = @ - 1,
                    !.conversations =
                       CommitTurn(@, userMessage, st.currentSteps, c)],
         userMessage, c)

\* chunk.split('\n').filter(line => line.trim())
ChunkLines(chunk) == filterNonBlank(split(chunk))

\* One iteration of the while loop on a chunk that reader.read() returned
ProcessChunk(st, chunk, userMessage, c) ==
  RunUpdaters(ProcessLines(st, ChunkLines(chunk), userMessage, c),
              userMessage, c)

\* ------------------------------------------------- the lines of a stream
IsJson(line) == JSONParse(line).ok
TypeOf(line) == Get(JSONParse(line).data, "type")
IsTraceEvent(line) == IsJson(line) /\ TypeOf(line) \in {"thought", "step"}
IsTerminal(line) == IsJson(line) /\ TypeOf(line) \in {"final_answer", "error"}
IsMalformed(line) == ~IsJson(line)

\* The fields the wire format requires of an event of each type
RequiredFields(type) ==
  CASE type = "thought" -> {"content"}
    [] type = "step" -> {"step", "thought", "action", "observation"}
    [] type = "final_answer" -> {"content"}
    [] type = "error" -> {"content"}
    [] OTHER -> {}

\* A JSON line of a recognized type that lacks a required field
IsIncomplete(line) ==
  /\ IsJson(line)
  /\ ~(RequiredFields(TypeOf(line)) \subseteq DOMAIN JSONParse(line).data)

\* The trace entry of a thought or step event, from the event itself; a
\* field the event lacks is undefined in the entry
ExpectedEntry(data) ==
  IF data.type = "thought"
    THEN [step |-> 0, type |-> "thought", content |-> Get(data, "content")]
    ELSE [step |-> Get(data, "step"), type |-> "action",
          thought |-> Get(data, "thought"), action |-> Get(data, "action"),
          observation |-> Get(data, "observation")]

\* What the whole lines received so far amount to.  It is kept for the
\* properties only; handleSend never reads it.
\*   events:    the entries of the thought and step lines, in line order
\*   traces:    for each terminal line, the entries of the lines before it
\*   malformed: the number of lines that are not JSON
\*   gapAt:     the number of entries before the last malformed line
\*   unknownAt: the number of entries before the last JSON line that is
\*              neither a thought or step event nor a terminal event, -1
\*              when there is none
\*   shape:     "events" while every line is a thought or step event with
\*              its fields, "terminated" when one terminal line with its
\*              fields follows them and is the last line, "other" otherwise
NoLines ==
  [events |-> <<>>, traces |-> <<>>, malformed |-> 0, gapAt |-> 0,
   unknownAt |-> -1, shape |-> "events"]

LineSeen(seen, line) ==
  IF IsTraceEvent(line) THEN
    [seen EXCEPT !.events = Append(@, ExpectedEntry(JSONParse(line).data)),
                 !.shape = IF @ = "events" /\ ~IsIncomplete(line)
                             THEN "events" ELSE "other"]
  ELSE IF IsTerminal(line) THEN
    [seen EXCEPT !.traces = Append(@, seen.events),
                 !.shape = IF @ = "events" /\ ~IsIncomplete(line)
                             THEN "terminated" ELSE "other"]
  ELSE IF IsMalformed(line) THEN
    [seen EXCEPT !.malformed = @ + 1,
                 !.gapAt = Len(seen.events),
                 !.shape = "other"]
  ELSE [seen EXCEPT !.unknownAt = Len(seen.events),
                    !.shape = "other"]

RECURSIVE LinesSeen(_, _)
LinesSeen(seen, lines) ==
  IF lines = <<>> THEN seen
  ELSE LinesSeen(LineSeen(seen, Head(lines)), Tail(lines))

\* The text of a stream up to its last newline
RECURSIVE UpToLastNewline(_)
UpToLastNewline(text) ==
  IF text = <<>> \/ text[Len(text)] = NL THEN text
  ELSE UpToLastNewline(SubSeq(text, 1, Len(text) - 1))

\* ------------------------------------------------------------------ state
VARIABLES
  conversations,          \* useState([]): the committed turns
  inputValue,             \* useState(''): the text area
  isLoading,              \* useState(false)
  currentThinkingSteps,   \* useState([]): the in-flight trace
  calls,                  \* the handleSend invocations: position and locals
  assistantMessage,       \* the assistantMessage object of each invocation
  net,                    \* per invocation: the response body on the wire
  nCalls,                 \* fetch requests issued so far
  nLines,                 \* lines the backend has written so far
  uncaught,               \* an error thrown out of a state updater
  lastOp                  \* the operation that led to this state

react == <<conversations, inputValue, isLoading, currentThinkingSteps>>
vars == <<conversations, inputValue, isLoading, currentThinkingSteps, calls,
          assistantMessage, net, nCalls, nLines, uncaught, lastOp>>

\* What the user can type: nothing, white space only, a padded message
Inputs == {<<>>, <<SP>>, <<SP, XX, SP>>}

NoMessage == [role |-> "user", content |-> <<>>]

\* An invocation that has not started, or whose locals are gone
\* (handled: the terminal events handled in the last chunk; reader: "held"
\* while the invocation holds the reader of the response body, which locks
\* the stream)
BlankCall ==
  [pc |-> "unused", userMessage |-> NoMessage, currentSteps |-> <<>>,
   hasFinalAnswer |-> FALSE, parseErrors |-> 0, handled |-> <<>>,
   reader |-> "none"]

\* wire: the rest of the line the last chunk ended in, not yet returned by
\* reader.read(); partial: the part of that line already returned; cut:
\* some chunk has ended inside a line; seen: the whole lines returned.
BlankNet == [wire |-> <<>>, partial |-> <<>>, cut |-> FALSE, seen |-> NoLines]

Active == {"fetch", "text", "read"}

Op(name, c, arg) == [op |-> name, call |-> c, arg |-> arg]

\* The locals and the stream of an invocation that has ended stay readable
\* in the state handleSend ends in; the next handler that runs finds them
\* gone.
Retired(cs) ==
  [d \in Calls |-> IF cs[d].pc \in Active THEN cs[d] ELSE BlankCall]

RetiredNet(cs, nt) ==
  [d \in Calls |-> IF cs[d].pc \in Active THEN nt[d] ELSE BlankNet]

Init ==
  /\ conversations = <<>>
  /\ inputValue = <<>>
  /\ isLoading = FALSE
  /\ currentThinkingSteps = <<>>
  /\ calls = [c \in Calls |-> BlankCall]
  /\ assistantMessage = [c \in Calls |-> <<>>]
  /\ net = [c \in Calls |-> BlankNet]
  /\ nCalls = 0
  /\ nLines = 0
  /\ uncaught = "none"
  /\ lastOp = Op("init", 0, 0)

\* An error thrown out of a state updater is uncaught in rendering: React
\* takes the component tree down and no handler runs afterwards.
Mounted == uncaught = "none"

\* ------------------------------------------------------------- handleSend
\* SendGuard without the test of isLoading
SendGuardIgnoresLoading(input, loading) == trim(input) = <<>>

\* SendGuard that tests the input without trimming it
SendGuardNoTrim(input, loading) == input = <<>> \/ loading

\* Line 63: the early return of handleSend
SendGuard(input, loading) == trim(input) = <<>> \/ loading

\* TraceAtSend that leaves the in-flight trace as the last turn left it
TraceAtSendKept(trace) == trace

\* Line 71: the in-flight trace as handleSend sets it when a turn starts
TraceAtSend(trace) == <<>>

\* handleSend up to its first await (lines 62-83).  A rejected call returns
\* at line 63.  A started call is invocation nCalls + 1; the locals of the
\* invocations that have ended are dropped here.
handleSend ==
  /\ Mounted
  /\ IF SendGuard(inputValue, isLoading)
       THEN /\ lastOp' = Op("handleSend", 0, 0)
            /\ calls' = Retired(calls)
            /\ net' = RetiredNet(calls, net)
            /\ UNCHANGED <<conversations, inputValue, isLoading,
                           currentThinkingSteps, assistantMessage,
                           nCalls, nLines, uncaught>>
       ELSE /\ nCalls < MaxCalls
            /\ LET c == nCalls + 1
                   userMessage == [role |-> "user", content |-> trim(inputValue)]
               IN
               /\ calls' = [Retired(calls) EXCEPT
                              ![c] = [BlankCall EXCEPT
                                        !.pc = "fetch",
                                        !.userMessage = userMessage]]
               /\ net' = [RetiredNet(calls, net) EXCEPT ![c] = BlankNet]
               /\ nCalls' = c
               /\ lastOp' = Op("handleSend", c, 1)
            /\ inputValue' = <<>>
            /\ isLoading' = TRUE
            /\ currentThinkingSteps' = TraceAtSend(currentThinkingSteps)
            /\ UNCHANGED <<conversations, assistantMessage, nLines, uncaught>>

\* The catch block and finally (lines 177-195).  setMessages is not defined
\* in App.jsx, so line 191 throws a ReferenceError before any state is set;
\* finally clears isLoading and the promise of handleSend rejects.
ExitByCatch(c, name) ==
  /\ calls' = [calls EXCEPT ![c].pc = "rejected"]
  /\ isLoading' = FALSE
  /\ lastOp' = Op(name, c, 0)
  /\ UNCHANGED <<conversations, inputValue, currentThinkingSteps,
                 assistantMessage, net, nCalls, nLines, uncaught>>

\* await fetch(...) resolves (lines 77-98).  ok: the reader is acquired
\* (getReader, line 94; no line of handleSend calls releaseLock or cancel)
\* and the locals are initialised; otherwise the handler awaits
\* response.text().
fetchResolve(c, ok) ==
  /\ Mounted
  /\ calls[c].pc = "fetch"
  /\ IF ok
       THEN /\ calls' = [calls EXCEPT ![c].pc = "read",
                                      ![c].reader = "held",
                                      ![c].currentSteps = <<>>,
                                      ![c].hasFinalAnswer = FALSE]
            /\ assistantMessage' = [assistantMessage EXCEPT ![c] = <<>>]
       ELSE /\ calls' = [calls EXCEPT ![c].pc = "text"]
            /\ UNCHANGED assistantMessage
  /\ lastOp' = Op("fetchResolve", c, IF ok THEN 1 ELSE 0)
  /\ UNCHANGED <<conversations, inputValue, isLoading, currentThinkingSteps,
                 net, nCalls, nLines, uncaught>>

\* await fetch(...) rejects: the catch block
fetchReject(c) ==
  /\ Mounted
  /\ calls[c].pc = "fetch"
  /\ ExitByCatch(c, "fetchReject")

\* await response.text() settles and line 90 throws (or text() rejects)
textResolve(c) ==
  /\ Mounted
  /\ calls[c].pc = "text"
  /\ ExitByCatch(c, "textResolve")

\* The texts of a sequence of lines, one after the other
RECURSIVE Flatten(_)
Flatten(kinds) ==
  IF kinds = <<>> THEN <<>> ELSE LineText(Head(kinds)) \o Flatten(Tail(kinds))

\* The sequences of at most n lines of the given kinds
LineSeqsOf(kinds, n) == UNION {[1..m -> kinds] : m \in 0..n}

\* The sequences of at most n lines
LineSeqs(n) == LineSeqsOf(LineKinds, n)

\* LoadingInLoop with setIsLoading(false) moved to the final_answer branch
LoadingInLoopClearedByAnswer(loading, hasFinalAnswer) ==
  IF hasFinalAnswer THEN FALSE ELSE loading

\* The value of isLoading after the loop body has run on a chunk: no line
\* of the loop (lines 100-169) sets it; the final_answer branch sets only
\* the local hasFinalAnswer, which is read after the loop (line 172).
LoadingInLoop(loading, hasFinalAnswer) == loading

\* await reader.read() returns a chunk, and the loop body runs on it (lines
\* 101-168).  The backend writes whole lines; the network cuts the stream
\* anywhere.  The chunk is the rest of the line the last chunk ended in
\* (net[c].wire), then the new lines ls, less the last `held` characters,
\* which stay on the wire; a line enters the model when its first character
\* is delivered.  decoder.decode with stream: true gives the characters of
\* the chunk.  batched: React batches the state updates made in the loop
\* and renders after it; whether it does depends on the version and the
\* mode of React the page is mounted with.  The updates of a chunk are
\* rendered before the next chunk is handled.
readChunk(c, ls, held, batched) ==
  /\ Mounted
  /\ calls[c].pc = "read"
  /\ Len(ls) <= MaxLines - nLines
  /\ LET text == net[c].wire \o Flatten(ls)
         k == Len(text) - held
         chunk == SubSeq(text, 1, k)
         st == [currentSteps |-> calls[c].currentSteps,
                hasFinalAnswer |-> calls[c].hasFinalAnswer,
                content |-> assistantMessage[c],
                conversations |-> conversations,
                currentThinkingSteps |-> currentThinkingSteps,
                parseErrors |-> calls[c].parseErrors,
                batched |-> batched, pending |-> FALSE, queued |-> 0,
                handled |-> <<>>]
         r == ProcessChunk(st, chunk, calls[c].userMessage, c)
     IN
     /\ k >= 1
     /\ IF ls = <<>> THEN TRUE ELSE held < Len(LineText(ls[Len(ls)]))
     \* batching makes a difference only to a chunk that commits a turn
     /\ batched => \E i \in 1..Len(ChunkLines(chunk)) :
                      IsTerminal(ChunkLines(chunk)[i])
     /\ calls' = [calls EXCEPT ![c].currentSteps = r.currentSteps,
                               ![c].hasFinalAnswer = r.hasFinalAnswer,
                               ![c].parseErrors = r.parseErrors,
                               ![c].handled = r.handled]
     /\ assistantMessage' = [assistantMessage EXCEPT ![c] = r.content]
     /\ conversations' = r.conversations
     /\ currentThinkingSteps' = r.currentThinkingSteps
     /\ isLoading' = LoadingInLoop(isLoading, r.hasFinalAnswer)
     /\ LET got == net[c].partial \o chunk
            whole == UpToLastNewline(got)
        IN net' = [net EXCEPT
                     ![c].wire = SubSeq(text, k + 1, Len(text)),
                     ![c].partial = SubSeq(got, Len(whole) + 1, Len(got)),
                     ![c].cut = @ \/ held > 0,
                     ![c].seen = LinesSeen(@, ChunkLines(whole))]
  /\ nLines' = nLines + Len(ls)
  /\ lastOp' = Op("readChunk", c, 0)
  /\ UNCHANGED <<inputValue, nCalls, uncaught>>

\* LoadingAfterLoop without the finally block
LoadingAfterLoopNoFinally(loading, hasFinalAnswer) ==
  IF hasFinalAnswer THEN FALSE ELSE loading

\* The value of isLoading after lines 172-175 and the finally block
LoadingAfterLoop(loading, hasFinalAnswer) ==
  LET afterIf == IF hasFinalAnswer THEN FALSE ELSE loading
      afterFinally == FALSE
  IN afterFinally

\* await reader.read() returns done: the loop ends, lines 171-175 and the
\* finally block run, handleSend returns.
readDone(c) ==
  /\ Mounted
  /\ calls[c].pc = "read"
  /\ net[c].wire = <<>>
  /\ calls' = [calls EXCEPT ![c].pc = "returned"]
  /\ isLoading' = LoadingAfterLoop(isLoading, calls[c].hasFinalAnswer)
  /\ lastOp' = Op("readDone", c, 0)
  /\ UNCHANGED <<conversations, inputValue, currentThinkingSteps,
                 assistantMessage, net, nCalls, nLines, uncaught>>

\* await reader.read() rejects (the transport failed): the catch block
readThrow(c) ==
  /\ Mounted
  /\ calls[c].pc = "read"
  /\ ExitByCatch(c, "readThrow")

\* --------------------------------------------------------- toggleThinking
\* Array indices of JavaScript start at 0
ValidIndex(prev, index) == 0 <= index /\ index < Len(prev)

\* Toggled that only collapses: showThinking is set to false
ToggledCollapse(prev, index) ==
  [prev EXCEPT ![index + 1].showThinking = FALSE]

\* The updater of lines 200-204 on a valid index
Toggled(prev, index) ==
  [prev EXCEPT ![index + 1].showThinking = ~@]

\* toggleThinking(index).  On an index outside the array,
\* newConversations[index] is undefined and reading .showThinking of it
\* throws a TypeError out of the updater: no new state is produced and the
\* error is not caught anywhere.
toggleThinking(index) ==
  /\ Mounted
  /\ IF ValidIndex(conversations, index)
       THEN /\ conversations' = Toggled(conversations, index)
            /\ UNCHANGED uncaught
       ELSE /\ uncaught' = "TypeError"
            /\ UNCHANGED conversations
  /\ lastOp' = Op("toggleThinking", 0, index)
  /\ calls' = Retired(calls)
  /\ net' = RetiredNet(calls, net)
  /\ UNCHANGED <<inputValue, isLoading, currentThinkingSteps,
                 assistantMessage, nCalls, nLines>>

\* Indices toggleThinking is called with: the history never holds more than
\* MaxLines turns, so -1 and MaxLines are always outside it.
ToggleArgs == -1..MaxLines

\* The nearest indices outside an array
OutsideArgs(prev) == {-1, Len(prev)}

\* onChange of the text area (line 329)
setInputValue(v) ==
  /\ Mounted
  /\ inputValue' = v
  /\ lastOp' = Op("setInputValue", 0, 0)
  /\ calls' = Retired(calls)
  /\ net' = RetiredNet(calls, net)
  /\ UNCHANGED <<conversations, isLoading, currentThinkingSteps,
                 assistantMessage, nCalls, nLines, uncaught>>

\* ---------------------------------------------------------- specification
\* --------------------------------------------------------------- the page
\* The send button is clicked or Enter is pressed in the text area; both
\* are disabled while loading (lines 332 and 334).
clickSend ==
  /\ ~isLoading
  /\ handleSend

\* The user types; the text area is disabled while loading (line 332)
typeText(v) ==
  /\ ~isLoading
  /\ setInputValue(v)

\* The header of a committed turn is clicked (line 232): toggleThinking is
\* called with the index of a turn of the history.
clickHeader(convIndex) ==
  /\ ValidIndex(conversations, convIndex)
  /\ toggleThinking(convIndex)

\* The handlers called directly, where the page would not call them:
\* handleSend and setInputValue while loading, toggleThinking with an index
\* outside the history.
sendWhileLoading ==
  /\ isLoading
  /\ handleSend

setInputWhileLoading(v) ==
  /\ isLoading
  /\ setInputValue(v)

toggleOutside(index) ==
  /\ ~ValidIndex(conversations, index)
  /\ toggleThinking(index)

\* The steps of the page and of the transport, but for the chunks
NextPage ==
  \/ clickSend
  \/ \E v \in Inputs : typeText(v)
  \/ \E c \in Calls : fetchResolve(c, TRUE)
  \/ \E c \in Calls : fetchResolve(c, FALSE)
  \/ \E c \in Calls : fetchReject(c)
  \/ \E c \in Calls : textResolve(c)
  \/ \E c \in Calls : readDone(c)
  \/ \E c \in Calls : readThrow(c)
  \/ \E index \in ToggleArgs : clickHeader(index)

Next ==
  \/ NextPage
  \/ \E c \in Calls, held \in 0..2, ls \in LineSeqs(MaxLines - nLines),
        batched \in BOOLEAN :
        readChunk(c, ls, held, batched)

\* The page and its backend
Spec == Init /\ [][Next]_vars

\* The lines of the streams during which the handlers are called directly:
\* an event that adds an entry, one that commits a turn, a malformed line
DirectKinds == {"T", "F", "G"}

\* The page, with handleSend and setInputValue also called while loading
NextDirect ==
  \/ NextPage
  \/ \E c \in Calls, held \in 0..2,
        ls \in LineSeqsOf(DirectKinds, MaxLines - nLines),
        batched \in BOOLEAN :
        readChunk(c, ls, held, batched)
  \/ sendWhileLoading
  \/ \E v \in Inputs : setInputWhileLoading(v)

SpecDirect == Init /\ [][NextDirect]_vars

\* The page, with toggleThinking also called on indices outside the history
NextAnyIndex ==
  \/ NextPage
  \/ \E c \in Calls, held \in 0..2,
        ls \in LineSeqsOf(DirectKinds, MaxLines - nLines),
        batched \in BOOLEAN :
        readChunk(c, ls, held, batched)
  \/ \E index \in OutsideArgs(conversations) : toggleOutside(index)

SpecAnyIndex == Init /\ [][NextAnyIndex]_vars

\* ------------------------------------------------------------ properties
Ended(c) == calls[c].pc \in {"returned", "rejected"}

ActiveCalls == {c \in Calls : calls[c].pc \in Active}

\* The places in the history of the turns committed by invocation c
TurnsOf(c) ==
  {i \in 1..Len(conversations) : conversations[i].assistantMessage = c}

\* The traces of the turns committed by invocation c, in history order
RECURSIVE TracesOf(_, _)
TracesOf(turns, c) ==
  IF turns = <<>> THEN <<>>
  ELSE IF Head(turns).assistantMessage = c
    THEN <<Head(turns).thinkingSteps>> \o TracesOf(Tail(turns), c)
  ELSE TracesOf(Tail(turns), c)

\* C1: when the lines received are thought and step events followed by one
\* terminal event, each line delivered whole, the invocation has committed
\* exactly one turn and its trace is the entries of those events in arrival
\* order.
C1_TraceInArrivalOrder ==
  \A c \in Calls :
    ((calls[c].pc = "read" \/ Ended(c))
       /\ ~net[c].cut /\ net[c].seen.shape = "terminated")
    => \E i \in 1..Len(conversations) :
         /\ TurnsOf(c) = {i}
         /\ conversations[i].thinkingSteps = net[c].seen.events

\* a thought, a step and a terminal event have arrived whole and the turn
\* is committed with its two entries
C1_Witness ==
  \E c \in Calls, i \in 1..Len(conversations) :
    /\ calls[c].pc = "read"
    /\ ~net[c].cut
    /\ net[c].seen.shape = "terminated"
    /\ TurnsOf(c) = {i}
    /\ Len(conversations[i].thinkingSteps) = 2
    /\ conversations[i].thinkingSteps[1] # conversations[i].thinkingSteps[2]

\* C2: every started turn ends with exactly one turn appended to the
\* history by it, whatever the outcome.
C2_OneTurnPerStartedTurn ==
  \A c \in Calls : Ended(c) => Cardinality(TurnsOf(c)) = 1

\* C3: handleSend called while loading is rejected: no request is issued,
\* and the history, the in-flight trace, the loading flag, the input and the
\* locals and stream of the turn in flight are unchanged.
C3_SendWhileLoadingRejected ==
  [][(isLoading /\ lastOp'.op = "handleSend")
       => /\ lastOp'.arg = 0
          /\ nCalls' = nCalls
          /\ UNCHANGED <<conversations, inputValue, isLoading,
                         currentThinkingSteps, assistantMessage>>
          /\ \A c \in ActiveCalls : calls'[c] = calls[c] /\ net'[c] = net[c]
    ]_vars

\* handleSend has just been rejected with a message typed and a trace in
\* flight
C3_Witness ==
  /\ lastOp = Op("handleSend", 0, 0)
  /\ isLoading
  /\ trim(inputValue) # <<>>
  /\ currentThinkingSteps # <<>>
  /\ ActiveCalls # {}

\* C4: at most one invocation of handleSend is in flight, and it is the
\* last one started.
C4_AtMostOneInFlight ==
  /\ Cardinality(ActiveCalls) <= 1
  /\ \A c \in ActiveCalls : c = nCalls

\* a second handleSend, with a message typed, has been rejected while the
\* stream of a turn that is already committed is still open
C4_Witness ==
  /\ lastOp = Op("handleSend", 0, 0)
  /\ trim(inputValue) # <<>>
  /\ \E c \in Calls : calls[c].pc = "read" /\ TurnsOf(c) # {}
  /\ nCalls < MaxCalls

\* C5: a stream that ends without a terminal event leaves exactly one new
\* turn in the history, an error turn whose trace is the entries accumulated.
C5_EndWithoutTerminalCommits ==
  \A c \in Calls :
    (calls[c].pc = "returned" /\ net[c].seen.traces = <<>>)
    => \E i \in 1..Len(conversations) :
         /\ TurnsOf(c) = {i}
         /\ conversations[i].thinkingSteps = calls[c].currentSteps
         /\ assistantMessage[c] # <<>>
         /\ Head(assistantMessage[c]) = ErrorPrefix

\* C6: whenever the text received so far ends at a newline, the entries
\* accumulated are those of its lines and a turn is committed for each of
\* its terminal lines, as when the text arrives in one chunk, however the
\* stream was cut into chunks.
C6_ChunkingIndependent ==
  \A c \in Calls :
    (calls[c].pc = "read" /\ net[c].wire = <<>>)
    => /\ calls[c].currentSteps = net[c].seen.events
       /\ Len(TracesOf(conversations, c)) = Len(net[c].seen.traces)

\* C7: lines delivered whole: a line that is not JSON is reported once,
\* adds no entry and commits no turn, and the lines after it are handled:
\* the entries are those of all the thought and step events, in order.
C7_MalformedLineSkipped ==
  \A c \in Calls :
    (calls[c].pc = "read" /\ ~net[c].cut)
    => /\ calls[c].currentSteps = net[c].seen.events
       /\ calls[c].parseErrors = net[c].seen.malformed
       /\ Cardinality(TurnsOf(c)) = Len(net[c].seen.traces)

\* a malformed line has arrived between two different step events and both
\* entries are in the trace
C7_Witness ==
  \E c \in Calls :
    /\ calls[c].pc = "read"
    /\ ~net[c].cut
    /\ net[c].seen.malformed = 1
    /\ net[c].seen.gapAt = 1
    /\ Len(calls[c].currentSteps) = 2
    /\ calls[c].currentSteps[1].type = "action"
    /\ calls[c].currentSteps[2].type = "action"
    /\ calls[c].currentSteps[1] # calls[c].currentSteps[2]
    /\ calls[c].parseErrors = 1
    /\ TurnsOf(c) = {}

\* C8: toggleThinking on an index of the history flips showThinking of that
\* turn and nothing else, and a second toggle on the index undoes it.
C8_ToggleFlipsOneFlag ==
  [][(lastOp'.op = "toggleThinking"
        /\ ValidIndex(conversations, lastOp'.arg))
       => LET i == lastOp'.arg + 1 IN
          /\ Len(conversations') = Len(conversations)
          /\ conversations'[i].showThinking = ~conversations[i].showThinking
          /\ conversations'[i].userMessage = conversations[i].userMessage
          /\ conversations'[i].thinkingSteps = conversations[i].thinkingSteps
          /\ conversations'[i].assistantMessage
               = conversations[i].assistantMessage
          /\ \A j \in 1..Len(conversations) :
               j # i => conversations'[j] = conversations[j]
          /\ UNCHANGED <<inputValue, isLoading, currentThinkingSteps,
                         assistantMessage, uncaught>>
          /\ \A c \in ActiveCalls : calls'[c] = calls[c] /\ net'[c] = net[c]
          /\ Toggled(conversations', lastOp'.arg) = conversations
    ]_vars

\* the first of two turns has just been collapsed while the second is shown
C8_Witness ==
  /\ lastOp = Op("toggleThinking", 0, 0)
  /\ Len(conversations) >= 2
  /\ ~conversations[1].showThinking
  /\ conversations[2].showThinking

\* C9: toggleThinking on an index outside the history raises no error and
\* changes nothing.
C9_ToggleOutsideIsNoOp ==
  [][(lastOp'.op = "toggleThinking"
        /\ ~ValidIndex(conversations, lastOp'.arg))
       => /\ uncaught' = "none"
          /\ UNCHANGED <<conversations, inputValue, isLoading,
                         currentThinkingSteps, assistantMessage>>
    ]_vars

\* C10: when an invocation of handleSend has ended, by return or by an
\* exception, isLoading is false.
C10_LoadingClearedOnExit ==
  \A c \in Calls : Ended(c) => ~isLoading

\* handleSend has ended by the exception thrown inside its catch block,
\* with entries accumulated before the failure
C10_Witness ==
  \E c \in Calls :
    /\ calls[c].pc = "rejected"
    /\ calls[c].currentSteps # <<>>
    /\ ~isLoading

\* The turns a step appends to the history
NewTurns == SubSeq(conversations', Len(conversations) + 1, Len(conversations'))

\* The step is the catch block of handleSend
IsCatch == lastOp'.op \in {"fetchReject", "textResolve", "readThrow"}

\* C11: when the transport fails (fetch rejects, the response is not OK,
\* reader.read throws), the turn ends and one error turn with the user
\* message and the trace accumulated so far is appended to the history.
C11_TransportFailureCommits ==
  [][IsCatch
       => LET c == lastOp'.call IN
          /\ calls'[c].pc = "rejected"
          /\ Len(NewTurns) = 1
          /\ SubSeq(conversations', 1, Len(conversations)) = conversations
          /\ NewTurns[1].userMessage = calls[c].userMessage
          /\ NewTurns[1].thinkingSteps = calls[c].currentSteps
    ]_vars

\* The terminal events handled in the chunk of a readChunk step
Handled == calls'[lastOp'.call].handled

\* C12: on a final_answer event the turn appended to the history has the
\* user message of the request, a final text equal to the content of the
\* event (a success: not the error string), showThinking true, and a trace
\* equal to currentSteps at the instant of the event.
C12_FinalAnswerTurn ==
  [][lastOp'.op = "readChunk"
       => \A k \in 1..Len(Handled) :
            Handled[k].type = "final_answer"
            => /\ k <= Len(NewTurns)
               /\ NewTurns[k].userMessage = calls[lastOp'.call].userMessage
               /\ assistantMessage'[NewTurns[k].assistantMessage]
                    = <<Handled[k].content>>
               /\ NewTurns[k].showThinking
               /\ NewTurns[k].thinkingSteps = Handled[k].steps
    ]_vars

\* C13: on an error event the turn appended to the history has the user
\* message of the request, a final text that is the error string with the
\* content of the event in it (a failure), showThinking true, and a trace
\* equal to currentSteps at the instant of the event, which may be empty.
C13_ErrorTurn ==
  [][lastOp'.op = "readChunk"
       => \A k \in 1..Len(Handled) :
            Handled[k].type = "error"
            => /\ k <= Len(NewTurns)
               /\ NewTurns[k].userMessage = calls[lastOp'.call].userMessage
               /\ assistantMessage'[NewTurns[k].assistantMessage]
                    = <<ErrorPrefix, Handled[k].content>>
               /\ NewTurns[k].showThinking
               /\ NewTurns[k].thinkingSteps = Handled[k].steps
    ]_vars

\* Two turn records that differ at most in showThinking
SameTurn(a, b) ==
  /\ a.userMessage = b.userMessage
  /\ a.thinkingSteps = b.thinkingSteps
  /\ a.assistantMessage = b.assistantMessage

\* C14: the history is append-only: no step makes it shorter, and every
\* turn stays at its index; the history before a step is a prefix, up to
\* showThinking, of the history after it.
C14_AppendOnly ==
  [][/\ Len(conversations') >= Len(conversations)
     /\ \A i \in 1..Len(conversations) :
          SameTurn(conversations'[i], conversations[i])
    ]_vars

\* the second request has just appended its turn behind the turn of the
\* first, which the user had collapsed
C14_Witness ==
  /\ lastOp.op = "readChunk"
  /\ lastOp.call = 2
  /\ calls[2].handled # <<>>
  /\ Len(conversations) = 2
  /\ conversations[1].assistantMessage = 1
  /\ ~conversations[1].showThinking
  /\ conversations[2].assistantMessage = 2
  /\ conversations[2].thinkingSteps # conversations[1].thinkingSteps

\* The text shown as the answer of a turn: the content of the
\* assistantMessage object the turn refers to
FinalText(turn, objects) == objects[turn.assistantMessage]

\* C15: a turn in the history is immutable but for showThinking: no step
\* changes its user message, its trace or its final text, whatever the same
\* stream delivers afterwards and whatever later turns do.
C15_CommittedTurnImmutable ==
  [][\A i \in 1..Len(conversations) :
       /\ i <= Len(conversations')
       /\ conversations'[i].userMessage = conversations[i].userMessage
       /\ conversations'[i].thinkingSteps = conversations[i].thinkingSteps
       /\ FinalText(conversations'[i], assistantMessage')
            = FinalText(conversations[i], assistantMessage)
    ]_vars

\* C16: once a terminal event of a request has committed a turn, the
\* in-flight trace is empty in every state for the rest of the request,
\* also when thought or step events arrive after the terminal event, and
\* the committed turn has its trace.
C16_NoInFlightTraceAfterCommit ==
  \A c \in Calls :
    (calls[c].pc = "read" /\ TurnsOf(c) # {})
    => /\ currentThinkingSteps = <<>>
       /\ \A i \in TurnsOf(c) : "thinkingSteps" \in DOMAIN conversations[i]

\* C17: whenever no turn is in flight (isLoading is false) the in-flight
\* trace is empty.
C17_NoInFlightTraceWhenIdle ==
  ~isLoading => currentThinkingSteps = <<>>

\* C18: only the first terminal event of a request commits a turn: a step
\* of a request that has committed a turn leaves the history unchanged, and
\* no step appends more than one turn.
C18_OnlyFirstTerminalCommits ==
  [][lastOp'.op = "readChunk"
       => Len(NewTurns) <= (IF TurnsOf(lastOp'.call) = {} THEN 1 ELSE 0)
    ]_vars

\* C19: the trace of the turn a terminal event commits is currentSteps as it
\* was at the event: entries of thought and step events that arrive after
\* the terminal event are not in it, and the trace of a turn in the history
\* is not extended afterwards.
C19_TraceIsSnapshot ==
  [][/\ lastOp'.op = "readChunk"
        => \A k \in 1..Len(Handled) :
             k <= Len(NewTurns)
             => NewTurns[k].thinkingSteps = Handled[k].steps
     /\ \A i \in 1..Len(conversations) :
          /\ i <= Len(conversations')
          /\ conversations'[i].thinkingSteps = conversations[i].thinkingSteps
    ]_vars

\* A trace entry none of whose texts is undefined
HasItsTexts(entry) ==
  \A f \in DOMAIN entry \ {"step"} : entry[f] # Undefined

\* C20: a JSON line of a recognized type that lacks a required field is
\* skipped as a parse error: no entry is made from it (no entry of the
\* trace has an undefined text) and no turn is committed for it (no
\* terminal event without content is handled as one).
C20_IncompleteEventSkipped ==
  \A c \in Calls :
    /\ \A k \in 1..Len(calls[c].currentSteps) :
         HasItsTexts(calls[c].currentSteps[k])
    /\ \A k \in 1..Len(calls[c].handled) :
         calls[c].handled[k].content # Undefined

\* The lines a readChunk step handled were whole lines, none of them a
\* thought, step, final_answer or error event or a malformed line
OnlyOtherLines ==
  LET c == lastOp'.call IN
  /\ lastOp'.op = "readChunk"
  /\ ~net'[c].cut
  /\ net'[c].seen.events = net[c].seen.events
  /\ net'[c].seen.traces = net[c].seen.traces
  /\ net'[c].seen.malformed = net[c].seen.malformed

\* C21: a JSON line whose type is none of thought, step, final_answer and
\* error, or that has no type, changes nothing: a chunk of such lines leaves
\* the accumulator, the in-flight trace, the history, the answer and the
\* loading flag as they were and reports no parse error; among other lines
\* it takes nothing from them: every event of the chunk still gets its entry
\* and every terminal event its turn.
C21_UnknownTypeIgnored ==
  [][/\ OnlyOtherLines
        => /\ UNCHANGED <<conversations, currentThinkingSteps, isLoading,
                          assistantMessage, inputValue>>
           /\ calls'[lastOp'.call].currentSteps
                = calls[lastOp'.call].currentSteps
           /\ calls'[lastOp'.call].hasFinalAnswer
                = calls[lastOp'.call].hasFinalAnswer
           /\ calls'[lastOp'.call].parseErrors
                = calls[lastOp'.call].parseErrors
     /\ (lastOp'.op = "readChunk" /\ ~net'[lastOp'.call].cut)
        => /\ calls'[lastOp'.call].currentSteps
                = net'[lastOp'.call].seen.events
           /\ Len(NewTurns) = Len(net'[lastOp'.call].seen.traces)
                                - Len(net[lastOp'.call].seen.traces)
    ]_vars

\* a line of another type has arrived between two events, in a chunk of its
\* own or not, and both entries are in the trace
C21_Witness ==
  \E c \in Calls :
    /\ calls[c].pc = "read"
    /\ ~net[c].cut
    /\ net[c].seen.unknownAt = 1
    /\ net[c].seen.malformed = 0
    /\ Len(calls[c].currentSteps) = 2
    /\ currentThinkingSteps = calls[c].currentSteps
    /\ calls[c].parseErrors = 0
    /\ TurnsOf(c) = {}

\* C22: each thought event appends one entry of type 'thought' with step 0
\* and the content of the event; each step event appends one entry of type
\* 'action' with the step number of the event itself, whatever its position
\* of arrival, and the thought, action and observation of the event.
C22_EntryOfEvent ==
  \A c \in Calls :
    (calls[c].pc = "read" /\ ~net[c].cut)
    => /\ Len(calls[c].currentSteps) = Len(net[c].seen.events)
       /\ \A k \in 1..Len(calls[c].currentSteps) :
            LET entry == calls[c].currentSteps[k] IN
            /\ entry = net[c].seen.events[k]
            /\ entry.type \in {"thought", "action"}
            /\ entry.type = "thought"
                 => /\ DOMAIN entry = {"step", "type", "content"}
                    /\ entry.step = 0
            /\ entry.type = "action"
                 => DOMAIN entry = {"step", "type", "thought", "action",
                                    "observation"}

\* a thought, step 2 and step 1 have arrived in this order: the entries are
\* numbered 0, 2 and 1 and carry the texts of their events
C22_Witness ==
  \E c \in Calls :
    /\ calls[c].pc = "read"
    /\ ~net[c].cut
    /\ calls[c].currentSteps =
         <<[step |-> 0, type |-> "thought", content |-> "need weather"],
           [step |-> 2, type |-> "action", thought |-> "t2",
            action |-> "a2", observation |-> "o2"],
           [step |-> 1, type |-> "action", thought |-> "t1",
            action |-> "a1", observation |-> "o1"]>>

\* a is b or the beginning of b
IsPrefix(a, b) == Len(a) <= Len(b) /\ SubSeq(b, 1, Len(a)) = a

\* C23: while a turn is in flight and no terminal event of it has been
\* handled, after a chunk is handled the published in-flight trace
\* (currentThinkingSteps) is the whole of currentSteps, and it has only
\* grown at its end.
C23_PublishedTraceIsAccumulator ==
  [][(lastOp'.op = "readChunk"
        /\ TracesOf(conversations', lastOp'.call) = <<>>)
       => /\ currentThinkingSteps' = calls'[lastOp'.call].currentSteps
          /\ IsPrefix(currentThinkingSteps, currentThinkingSteps')
    ]_vars

\* a second entry has just been published behind the first, no terminal
\* event handled yet
C23_Witness ==
  \E c \in Calls :
    /\ lastOp = Op("readChunk", c, 0)
    /\ calls[c].pc = "read"
    /\ TurnsOf(c) = {}
    /\ Len(currentThinkingSteps) = 2
    /\ currentThinkingSteps[1] # currentThinkingSteps[2]
    /\ currentThinkingSteps = calls[c].currentSteps

\* C24: the accumulator starts empty at every turn: when handleSend starts
\* a turn and when the reading starts, the in-flight trace and currentSteps
\* are empty, whatever the turn before left behind, and the trace of every
\* turn committed is the beginning of the entries of the events of the
\* stream of its own request (lines delivered whole).
C24_AccumulatorStartsEmpty ==
  [][/\ (lastOp'.op = "handleSend" /\ lastOp'.arg = 1)
        => /\ currentThinkingSteps' = <<>>
           /\ calls'[lastOp'.call].currentSteps = <<>>
     /\ (lastOp'.op = "fetchResolve" /\ lastOp'.arg = 1)
        => /\ currentThinkingSteps' = <<>>
           /\ calls'[lastOp'.call].currentSteps = <<>>
     /\ (lastOp'.op = "readChunk" /\ ~net'[lastOp'.call].cut)
        => \A k \in 1..Len(NewTurns) :
             IsPrefix(NewTurns[k].thinkingSteps,
                      net'[lastOp'.call].seen.events)
    ]_vars

\* the second request has just committed its turn with the one entry of its
\* own stream; the first request took a line of the backend and ended
\* without committing a turn
C24_Witness ==
  /\ lastOp = Op("readChunk", 2, 0)
  /\ nLines = MaxLines
  /\ ~net[2].cut
  /\ net[2].seen.shape = "terminated"
  /\ Len(net[2].seen.events) = 1
  /\ Len(conversations) = 1
  /\ conversations[1].assistantMessage = 2
  /\ conversations[1].thinkingSteps = net[2].seen.events

\* C25: once handleSend has ended, by the end of the stream or by an
\* exception, the reader it obtained from response.body.getReader() is no
\* longer held.
C25_ReaderReleasedOnExit ==
  \A c \in Calls : Ended(c) => calls[c].reader # "held"

WhiteSpace == {"sp", "nl"}

\* A text that is empty or white space only
IsBlank(text) == \A i \in 1..Len(text) : text[i].k \in WhiteSpace

\* out is text without its leading and trailing white space
IsTrimOf(out, text) ==
  /\ out # <<>>
  /\ Head(out).k \notin WhiteSpace
  /\ out[Len(out)].k \notin WhiteSpace
  /\ \E i \in 1..Len(text) :
       /\ i + Len(out) - 1 <= Len(text)
       /\ SubSeq(text, i, i + Len(out) - 1) = out
       /\ IsBlank(SubSeq(text, 1, i - 1))
       /\ IsBlank(SubSeq(text, i + Len(out), Len(text)))

\* C27: handleSend with an input that is empty or white space only starts
\* no turn: no request is issued and the loading flag, the in-flight trace,
\* the history and the input are unchanged.  With any other input (and not
\* loading) the user message of the turn is the input without its leading
\* and trailing white space, and that message is the one stored in the
\* turns the request commits.
C27_BlankInputStartsNoTurn ==
  [][/\ (lastOp'.op = "handleSend" /\ IsBlank(inputValue))
        => /\ lastOp'.arg = 0
           /\ nCalls' = nCalls
           /\ \A c \in Calls : calls'[c].pc = "unused" \/ calls[c].pc \in Active
           /\ UNCHANGED <<conversations, inputValue, isLoading,
                          currentThinkingSteps, assistantMessage>>
     /\ (lastOp'.op = "handleSend" /\ ~IsBlank(inputValue) /\ ~isLoading)
        => /\ lastOp'.arg = 1
           /\ nCalls' = nCalls + 1
           /\ calls'[lastOp'.call].userMessage.role = "user"
           /\ IsTrimOf(calls'[lastOp'.call].userMessage.content, inputValue)
     /\ lastOp'.op = "readChunk"
        => \A k \in 1..Len(NewTurns) :
             NewTurns[k].userMessage = calls[lastOp'.call].userMessage
    ]_vars

\* handleSend has just returned on an input of white space only, after an
\* earlier send of a padded message whose turn holds the message trimmed
C27_Witness ==
  /\ lastOp = Op("handleSend", 0, 0)
  /\ inputValue = <<SP>>
  /\ ~isLoading
  /\ ActiveCalls = {}
  /\ Len(conversations) >= 1
  /\ conversations[1].userMessage.content = <<XX>>

\* C28: isLoading stays true from the start of a turn until the stream
\* ends or an exception occurs: it is true in every state in which an
\* invocation of handleSend is in flight, a chunk that commits a turn leaves
\* it true, and a handleSend called in the meantime starts nothing.
C28_LoadingUntilStreamEnds ==
  [][/\ (\E c \in Calls : calls'[c].pc \in Active) => isLoading'
     /\ lastOp'.op = "readChunk" => isLoading /\ isLoading'
     /\ (lastOp'.op = "handleSend" /\ ActiveCalls # {})
        => /\ lastOp'.arg = 0
           /\ nCalls' = nCalls
           /\ isLoading'
    ]_vars

\* the final_answer has committed the turn, the stream is still open and
\* isLoading is true; a handleSend with a message typed has just returned
\* without starting a turn
C28_Witness ==
  \E c \in Calls :
    /\ calls[c].pc = "read"
    /\ calls[c].hasFinalAnswer
    /\ TurnsOf(c) # {}
    /\ isLoading
    /\ lastOp = Op("handleSend", 0, 0)
    /\ trim(inputValue) # <<>>
    /\ nCalls < MaxCalls

====
